---- MODULE Spec2Model ----
(***************************************************************************)
(* A model of app_fraud_detection.py: a Streamlit script that loads a      *)
(* cached classifier, renders a six-field form, and, when the button is    *)
(* pressed, builds a one-row DataFrame, derives twelve features from it    *)
(* (create_advanced_features) and shows the classifier's verdict.          *)
(*                                                                         *)
(* The numeric columns are float64 (number_input with float arguments, a   *)
(* DataFrame of Python floats).  A float64 magnitude is modelled exactly,  *)
(* as the finite set of the exponents of its binary expansion              *)
(*   1000.0 = 2^9+2^8+2^7+2^6+2^5+2^3 = {9, 8, 7, 6, 5, 3},  0.0 = {}      *)
(* and + and - round their exact result to Precision significant bits,     *)
(* ties to even, as IEEE 754 binary64 does.  Exponent overflow and         *)
(* subnormals are out of the range of the values used here.                *)
(***************************************************************************)
EXTENDS Integers, FiniteSets, Sequences, TLC

VARIABLES
    cache,            \* st.cache_resource's entry for load_model: {} or {handle}
    loadCalls,        \* joblib.load calls made so far
    handles,          \* the handles joblib.load has returned
    transaction_type, \* the six widgets' values, kept between runs
    amount,
    oldbalanceOrg,
    newbalanceOrig,
    oldbalanceDest,
    newbalanceDest,
    pc,               \* the position of the current script run
    clicked,          \* st.button's value in the current run
    model,            \* the script's global `model` in the current run
    input_data,
    input_data_enhanced,
    prediction,
    probability,
    error,            \* the exception that ended the run, or "none"
    rendered,         \* the elements the current run has put on the page
    shown,            \* the result block: {} or {[metric, verdict]}
    predictCall,      \* model.predict's call in this run: {} or {[with, arg]}
    probaCall,        \* model.predict_proba's call in this run
    firstDerive       \* the process's first create_advanced_features call

procVars   == <<cache, loadCalls, handles>>
widgetVars == <<transaction_type, amount, oldbalanceOrg, newbalanceOrig,
                oldbalanceDest, newbalanceDest>>
frameVars  == <<input_data, input_data_enhanced>>
resultVars == <<prediction, probability, shown, predictCall, probaCall>>
vars == <<cache, loadCalls, handles, transaction_type, amount, oldbalanceOrg,
          newbalanceOrig, oldbalanceDest, newbalanceDest, pc, clicked, model,
          input_data, input_data_enhanced, prediction, probability, error,
          rendered, shown, predictCall, probaCall, firstDerive>>

\* An optional value is a set with at most one element; The(S) is the element.
The(S) == CHOOSE v \in S : TRUE

(***************************************************************************)
(* float64 arithmetic                                                      *)
(***************************************************************************)

\* Significand width of float64, the dtype of the DataFrame's numeric columns.
Precision == 53

Max(S) == CHOOSE x \in S : \A y \in S : y <= x
Min(S) == CHOOSE x \in S : \A y \in S : x <= y

Bit(m, i) == IF i \in m THEN 1 ELSE 0

\* The carry into position i of a + b: some lower position generates a carry
\* (both bits set) and every position between propagates it (a bit set).
Carry(a, b, i) ==
    \E j \in a \cap b :
        /\ j < i
        /\ \A k \in (j + 1)..(i - 1) : k \in a \/ k \in b

\* Exact sum of two magnitudes.
AddMag(a, b) ==
    IF a = {} THEN b
    ELSE IF b = {} THEN a
    ELSE {i \in Min(a \cup b)..(Max(a \cup b) + 1) :
             (Bit(a, i) + Bit(b, i) + (IF Carry(a, b, i) THEN 1 ELSE 0)) % 2 = 1}

\* The borrow into position i of a - b: some lower position needs one (a's bit
\* clear, b's set) and no position between can absorb it (a's set, b's clear).
Borrow(a, b, i) ==
    \E j \in b \ a :
        /\ j < i
        /\ \A k \in (j + 1)..(i - 1) : ~(k \in a /\ k \notin b)

\* a > b on magnitudes: the highest exponent on which they differ is a's.
MagGt(a, b) ==
    /\ a # b
    /\ Max((a \ b) \cup (b \ a)) \in a

\* Exact difference a - b of two magnitudes, a >= b.
SubMag(a, b) ==
    IF b = {} THEN a
    ELSE {i \in Min(a \cup b)..Max(a \cup b) :
             (Bit(a, i) + Bit(b, i) + (IF Borrow(a, b, i) THEN 1 ELSE 0)) % 2 = 1}

\* Round a magnitude to Precision significant bits, ties to even.
RoundMag(m) ==
    IF m = {}
    THEN {}
    ELSE LET g    == Max(m) - Precision
             kept == {i \in m : i > g}
         IN  IF g \notin m
             THEN kept
             ELSE IF (\E i \in m : i < g) \/ (g + 1) \in m
                  THEN AddMag(kept, {g + 1})
                  ELSE kept

\* An exact magnitude is a float64 when it needs no rounding.
Representable(m) == m = {} \/ Max(m) - Min(m) < Precision

PlusZero == [neg |-> FALSE, mag |-> {}]

Neg(x) == IF x.mag = {} THEN x ELSE [neg |-> ~x.neg, mag |-> x.mag]

\* The exact (unrounded) sum of two signed values.
ExactAdd(x, y) ==
    IF x.neg = y.neg
    THEN [neg |-> x.neg /\ (x.mag # {} \/ y.mag # {}), mag |-> AddMag(x.mag, y.mag)]
    ELSE IF x.mag = y.mag
         THEN PlusZero
         ELSE IF MagGt(x.mag, y.mag)
              THEN [neg |-> x.neg, mag |-> SubMag(x.mag, y.mag)]
              ELSE [neg |-> y.neg, mag |-> SubMag(y.mag, x.mag)]

RoundF(x) == [neg |-> x.neg, mag |-> RoundMag(x.mag)]

\* float64 x + y and x - y.
FAdd(x, y) == RoundF(ExactAdd(x, y))
FSub(x, y) == RoundF(ExactAdd(x, Neg(y)))

\* float64 x > y.
FGt(x, y) ==
    IF x.neg # y.neg
    THEN y.neg
    ELSE IF x.neg THEN MagGt(y.mag, x.mag) ELSE MagGt(x.mag, y.mag)

\* A whole number as a float64 (exact below 2^Precision).
FromInt(n) == [neg |-> FALSE, mag |-> {i \in 0..30 : (n \div (2 ^ i)) % 2 = 1}]

\* The float64 whose float.hex() is 0x1.<digits>p+<exp>.
FromHex(digits, exp) ==
    [neg |-> FALSE,
     mag |-> {exp} \cup
             UNION {{exp - 4 * k + j : j \in {b \in 0..3 : (digits[k] \div (2 ^ b)) % 2 = 1}}
                        : k \in 1..Len(digits)}]

(***************************************************************************)
(* The DataFrame (one row: a record from column name to cell) and the      *)
(* feature derivation                                                      *)
(***************************************************************************)

\* dic_type with RETRAIT mapped to the deposit code.
dic_type_dup ==
    [PAIEMENT  |-> "PAYMENT",
     TRANSFERT |-> "TRANSFER",
     RETRAIT   |-> "CASH_IN",
     DEPOT     |-> "CASH_IN"]

\* dic_type: the form's labels to the codes the classifier was trained on.
dic_type ==
    [PAIEMENT  |-> "PAYMENT",
     TRANSFERT |-> "TRANSFER",
     RETRAIT   |-> "CASH_OUT",
     DEPOT     |-> "CASH_IN"]

\* The options of the "Type de transaction" selectbox.
TypeOptions == {"PAIEMENT", "TRANSFERT", "RETRAIT", "DEPOT"}

\* The four codes of the RawTransaction type (spec section 3).
CanonicalCodes == {"PAYMENT", "TRANSFER", "CASH_OUT", "CASH_IN"}

RawColumns ==
    {"type", "amount", "oldbalanceOrg", "newbalanceOrig", "oldbalanceDest", "newbalanceDest"}

DerivedColumns ==
    {"balance_diff_orig", "balance_diff_dest",
     "amount_to_oldbalance_orig", "amount_to_oldbalance_dest",
     "error_balance_orig", "error_balance_dest",
     "is_zero_balance_orig", "is_zero_balance_dest", "large_transaction",
     "log_amount", "log_oldbalance_orig", "log_oldbalance_dest"}

\* df[col] = v for each column of `new`: a column is added, or overwritten when
\* the frame has it; the other columns keep their cells.
SetColumns(df, new) ==
    [c \in DOMAIN df \cup DOMAIN new |-> IF c \in DOMAIN new THEN new[c] ELSE df[c]]

\* x / y on float64 columns, kept symbolic: pandas raises nothing when y is 0,
\* the cell is then inf or nan.
FDiv(x, y) == [op |-> "div", num |-> x, den |-> y]

\* np.log1p(x), kept symbolic: finite when x > -1, else -inf or nan.
Log1p(x) == [op |-> "log1p", arg |-> x]

\* (series == 0).astype(int) and (series > t).astype(int)
IsZeroFlag(x) == IF x.mag = {} THEN 1 ELSE 0
GreaterFlag(x, t) == IF FGt(x, t) THEN 1 ELSE 0

\* balance_diff_orig with its operands exchanged.
balance_diff_orig_swapped(df) == FSub(df.newbalanceOrig, df.oldbalanceOrg)

\* The right-hand sides of the twelve column assignments, each named after the
\* column it computes, as functions of the frame they read.
balance_diff_orig(df) == FSub(df.oldbalanceOrg, df.newbalanceOrig)
balance_diff_dest(df) == FSub(df.newbalanceDest, df.oldbalanceDest)

\* The denominator without the + 1.
RatioDenominatorBare(balance) == balance

\* The + 1 of the two ratios' denominators.
RatioDenominator(balance) == FAdd(balance, FromInt(1))

amount_to_oldbalance_orig(df) == FDiv(df.amount, RatioDenominator(df.oldbalanceOrg))
amount_to_oldbalance_dest(df) == FDiv(df.amount, RatioDenominator(df.oldbalanceDest))

error_balance_orig(df) == FSub(df.balance_diff_orig, df.amount)
error_balance_dest(df) == FSub(df.balance_diff_dest, df.amount)

\* is_zero_balance_orig reading the balance before the transaction.
is_zero_balance_orig_before(df) == IsZeroFlag(df.oldbalanceOrg)

is_zero_balance_orig(df) == IsZeroFlag(df.newbalanceOrig)
is_zero_balance_dest(df) == IsZeroFlag(df.oldbalanceDest)

LargeThreshold == FromInt(200000)

\* large_transaction with >= for >.
large_transaction_inclusive(df) ==
    IF FGt(df.amount, LargeThreshold) \/ df.amount = LargeThreshold THEN 1 ELSE 0

large_transaction(df) == GreaterFlag(df.amount, LargeThreshold)

log_amount(df) == Log1p(df.amount)
log_oldbalance_orig(df) == Log1p(df.oldbalanceOrg)
log_oldbalance_dest(df) == Log1p(df.oldbalanceDest)

\* The twelve assignments in order.  The two error_balance columns read the
\* balance_diff columns written before them; the others read raw columns only.
AddColumns(df) ==
    LET diffs == SetColumns(df,
                   [balance_diff_orig |-> balance_diff_orig(df),
                    balance_diff_dest |-> balance_diff_dest(df)])
    IN  SetColumns(diffs,
          [amount_to_oldbalance_orig |-> amount_to_oldbalance_orig(diffs),
           amount_to_oldbalance_dest |-> amount_to_oldbalance_dest(diffs),
           error_balance_orig        |-> error_balance_orig(diffs),
           error_balance_dest        |-> error_balance_dest(diffs),
           is_zero_balance_orig      |-> is_zero_balance_orig(diffs),
           is_zero_balance_dest      |-> is_zero_balance_dest(diffs),
           large_transaction         |-> large_transaction(diffs),
           log_amount                |-> log_amount(diffs),
           log_oldbalance_orig       |-> log_oldbalance_orig(diffs),
           log_oldbalance_dest       |-> log_oldbalance_dest(diffs)])

\* create_advanced_features without df.copy(): the columns are added to the
\* caller's frame.
create_advanced_features_inplace(df) == [arg |-> AddColumns(df), ret |-> AddColumns(df)]

\* create_advanced_features keeping a running total of the amounts it has seen
\* in module state.
create_advanced_features_accumulating(df) ==
    IF firstDerive = {}
    THEN [arg |-> df, ret |-> AddColumns(df)]
    ELSE [arg |-> df,
          ret |-> AddColumns([df EXCEPT !.amount = FAdd(df.amount, The(firstDerive).arg.amount)])]

\* create_advanced_features(df): df = df.copy() makes the assignments on a copy,
\* so the caller's frame (arg) is as it was and the copy is returned (ret).
create_advanced_features(df) == [arg |-> df, ret |-> AddColumns(df)]

(***************************************************************************)
(* The script                                                              *)
(***************************************************************************)

\* joblib.load calls explored.
MaxLoads == 2

\* Values typed into the number inputs while the application runs.
AmountInputs      == {FromInt(1000), FromInt(200001)}
OldOrigInputs     == {FromInt(10000), PlusZero}
NewOrigInputs     == {FromInt(9000), PlusZero}
OldDestInputs     == {PlusZero, FromInt(9000)}
NewDestInputs     == {PlusZero}

\* What the opaque classifier may answer: a label, and a probability in
\* thousandths.
Labels        == {0, 1}
Probabilities == {25, 975}

\* The state a script run starts in.
RunStart(click) ==
    /\ pc' = "load"
    /\ clicked' = click
    /\ model' = {}
    /\ input_data' = {}
    /\ input_data_enhanced' = {}
    /\ prediction' = {}
    /\ probability' = {}
    /\ error' = "none"
    /\ rendered' = {}
    /\ shown' = {}
    /\ predictCall' = {}
    /\ probaCall' = {}

Init ==
    /\ cache = {}
    /\ loadCalls = 0
    /\ handles = {}
    /\ transaction_type = "PAIEMENT"
    /\ amount = FromInt(1000)
    /\ oldbalanceOrg = FromInt(10000)
    /\ newbalanceOrig = FromInt(9000)
    /\ oldbalanceDest = PlusZero
    /\ newbalanceDest = PlusZero
    /\ pc = "load"
    /\ clicked = FALSE
    /\ model = {}
    /\ input_data = {}
    /\ input_data_enhanced = {}
    /\ prediction = {}
    /\ probability = {}
    /\ error = "none"
    /\ rendered = {}
    /\ shown = {}
    /\ predictCall = {}
    /\ probaCall = {}
    /\ firstDerive = {}

\* The run is over: the script reached its end, or an exception stopped it.
Finished == pc \in {"idle", "crashed"}

\* An exception ends the run; Streamlit shows it on the page.
Raise(e) ==
    /\ error' = e
    /\ pc' = "crashed"
    /\ rendered' = rendered \cup {"exception"}

\* load_model without @st.cache_resource.
CacheNever == FALSE

\* @st.cache_resource: load_model's body runs only when the cache has no entry.
CacheHit == cache # {}

\* load_model catching the exception and going on without a model.
LoadSwallowed ==
    /\ rendered' = rendered \cup {"exception"}
    /\ pc' = "form"
    /\ UNCHANGED <<cache, handles, model, error>>

\* joblib.load raises: the exception leaves load_model and the script; nothing
\* is cached.
LoadRaises ==
    /\ Raise("LoadError")
    /\ UNCHANGED <<cache, handles, model>>

\* model = load_model()
LoadModel ==
    /\ pc = "load"
    /\ IF CacheHit
       THEN /\ model' = cache
            /\ pc' = "form"
            /\ UNCHANGED <<procVars, error, rendered>>
       ELSE /\ loadCalls < MaxLoads
            /\ loadCalls' = loadCalls + 1
            /\ \E ok \in BOOLEAN :
                  IF ok
                  THEN /\ handles' = handles \cup {loadCalls'}
                       /\ cache' = {loadCalls'}
                       /\ model' = {loadCalls'}
                       /\ pc' = "form"
                       /\ UNCHANGED <<error, rendered>>
                  ELSE LoadRaises
    /\ UNCHANGED <<widgetVars, clicked, frameVars, resultVars, firstDerive>>

\* The title, the selectbox and the five number inputs.
RenderForm ==
    /\ pc = "form"
    /\ rendered' = rendered \cup {"form"}
    /\ pc' = "button"
    /\ UNCHANGED <<procVars, widgetVars, clicked, model, frameVars, resultVars,
                   error, firstDerive>>

\* if st.button(...):
Button ==
    /\ pc = "button"
    /\ rendered' = rendered \cup {"button"}
    /\ pc' = IF clicked THEN "build" ELSE "footer"
    /\ UNCHANGED <<procVars, widgetVars, clicked, model, frameVars, resultVars,
                   error, firstDerive>>

\* dic_type.get(label, label): an unknown label passes through.
TypeLookupDefault(label) == IF label \in DOMAIN dic_type THEN {dic_type[label]} ELSE {label}

\* dic_type[label]: the code, or nothing (KeyError) for a label that is no key.
TypeLookup(label) == IF label \in DOMAIN dic_type THEN {dic_type[label]} ELSE {}

\* input_data = pd.DataFrame({...}): the columns' values are evaluated first, so
\* a KeyError of the lookup leaves input_data unassigned.
Build ==
    /\ pc = "build"
    /\ IF TypeLookup(transaction_type) # {}
       THEN /\ input_data' = {[type           |-> The(TypeLookup(transaction_type)),
                               amount         |-> amount,
                               oldbalanceOrg  |-> oldbalanceOrg,
                               newbalanceOrig |-> newbalanceOrig,
                               oldbalanceDest |-> oldbalanceDest,
                               newbalanceDest |-> newbalanceDest]}
            /\ pc' = "derive"
            /\ UNCHANGED <<error, rendered>>
       ELSE /\ Raise("KeyError")
            /\ UNCHANGED input_data
    /\ UNCHANGED <<procVars, widgetVars, clicked, model, input_data_enhanced,
                   resultVars, firstDerive>>

\* input_data_enhanced = create_advanced_features(input_data)
Derive ==
    /\ pc = "derive"
    /\ LET call == create_advanced_features(The(input_data))
       IN  /\ input_data' = {call.arg}
           /\ input_data_enhanced' = {call.ret}
           /\ firstDerive' = IF firstDerive = {}
                             THEN {[arg |-> The(input_data), ret |-> call.ret]}
                             ELSE firstDerive
    /\ pc' = "predict"
    /\ UNCHANGED <<procVars, widgetVars, clicked, model, resultVars, error, rendered>>

\* prediction = model.predict(input_data_enhanced)[0]
Predict ==
    /\ pc = "predict"
    /\ IF model = {}
       THEN /\ Raise("AttributeError")
            /\ UNCHANGED <<prediction, predictCall>>
       ELSE /\ predictCall' = {[with |-> The(model), arg |-> The(input_data_enhanced)]}
            /\ \E label \in Labels : prediction' = {label}
            /\ pc' = "proba"
            /\ UNCHANGED <<error, rendered>>
    /\ UNCHANGED <<procVars, widgetVars, clicked, model, frameVars, probability,
                   shown, probaCall, firstDerive>>

\* probability = model.predict_proba(input_data_enhanced)[0, 1]
Proba ==
    /\ pc = "proba"
    /\ probaCall' = {[with |-> The(model), arg |-> The(input_data_enhanced)]}
    /\ \E p \in Probabilities : probability' = {p}
    /\ pc' = "show"
    /\ UNCHANGED <<procVars, widgetVars, clicked, model, frameVars, prediction,
                   shown, predictCall, error, rendered, firstDerive>>

\* f"{probability * 100:.1f}%" of a probability in thousandths: percent, tenths.
FormatPercent(p) == <<p \div 10, p % 10>>

\* st.metric(...) and the verdict block.
Show ==
    /\ pc = "show"
    /\ shown' = {[metric  |-> FormatPercent(The(probability)),
                  verdict |-> IF The(prediction) = 1 THEN "FRAUDULEUSE" ELSE "LEGITIME"]}
    /\ rendered' = rendered \cup {"result"}
    /\ pc' = "footer"
    /\ UNCHANGED <<procVars, widgetVars, clicked, model, frameVars, prediction,
                   probability, predictCall, probaCall, error, firstDerive>>

\* The footer; the script ends.
Footer ==
    /\ pc = "footer"
    /\ rendered' = rendered \cup {"footer"}
    /\ pc' = "idle"
    /\ UNCHANGED <<procVars, widgetVars, clicked, model, frameVars, resultVars,
                   error, firstDerive>>

\* The user presses the button: the script runs again with st.button true.
PressButton ==
    /\ Finished
    /\ "button" \in rendered
    /\ RunStart(TRUE)
    /\ UNCHANGED <<procVars, widgetVars, firstDerive>>

\* The user changes the selectbox: the script runs again.
ChangeType ==
    /\ Finished
    /\ "form" \in rendered
    /\ \E t \in TypeOptions : transaction_type' = t
    /\ RunStart(FALSE)
    /\ UNCHANGED <<procVars, amount, oldbalanceOrg, newbalanceOrig, oldbalanceDest,
                   newbalanceDest, firstDerive>>

\* The user changes a number input (min_value=0.0): the script runs again.
ChangeNumber ==
    /\ Finished
    /\ "form" \in rendered
    /\ \E a \in AmountInputs, oo \in OldOrigInputs, no \in NewOrigInputs,
          od \in OldDestInputs, nd \in NewDestInputs :
          /\ amount' = a
          /\ oldbalanceOrg' = oo
          /\ newbalanceOrig' = no
          /\ oldbalanceDest' = od
          /\ newbalanceDest' = nd
          /\ Cardinality({i \in 1..5 :
                 <<a, oo, no, od, nd>>[i] #
                 <<amount, oldbalanceOrg, newbalanceOrig, oldbalanceDest, newbalanceDest>>[i]}) = 1
    /\ RunStart(FALSE)
    /\ UNCHANGED <<procVars, transaction_type, firstDerive>>

\* The user asks for a rerun (the page's Rerun command).
Rerun ==
    /\ Finished
    /\ RunStart(FALSE)
    /\ UNCHANGED <<procVars, widgetVars, firstDerive>>

\* The browser loads the page anew: a new session, its widgets at their
\* defaults, in the same process.
PageLoad ==
    /\ Finished
    /\ transaction_type' = "PAIEMENT"
    /\ amount' = FromInt(1000)
    /\ oldbalanceOrg' = FromInt(10000)
    /\ newbalanceOrig' = FromInt(9000)
    /\ oldbalanceDest' = PlusZero
    /\ newbalanceDest' = PlusZero
    /\ RunStart(FALSE)
    /\ UNCHANGED <<procVars, firstDerive>>

Next ==
    \/ LoadModel
    \/ RenderForm
    \/ Button
    \/ Build
    \/ Derive
    \/ Predict
    \/ Proba
    \/ Show
    \/ Footer
    \/ PressButton
    \/ ChangeType
    \/ ChangeNumber
    \/ Rerun
    \/ PageLoad

Spec == Init /\ [][Next]_vars

(***************************************************************************)
(* The button handler on its own, as a function of the six values it       *)
(* reads: the model is loaded, the button was pressed, and the type label  *)
(* and the numbers are drawn from wider sets than the application's runs   *)
(* explore (a label outside the selectbox's options among them).           *)
(***************************************************************************)

HandlerLabels == TypeOptions \cup {"WITHDRAWAL", "PAYMENT"}

\* 15275.49, 5101.38 and 200000.01 as float64 (float.hex() is
\* 0x1.dd5beb851eb85p+13, 0x1.3ed6147ae147bp+12 and 0x1.86a00147ae148p+17).
F15275_49  == FromHex(<<13, 13, 5, 11, 14, 11, 8, 5, 1, 14, 11, 8, 5>>, 13)
F5101_38   == FromHex(<<3, 14, 13, 6, 1, 4, 7, 10, 14, 1, 4, 7, 11>>, 12)
F200000_01 == FromHex(<<8, 6, 10, 0, 0, 1, 4, 7, 10, 14, 1, 4, 8>>, 17)

HandlerAmounts  == {PlusZero, FromInt(1000), FromInt(200000), F200000_01, FromInt(200001)}
HandlerOldOrigs == {PlusZero, FromInt(10000), F15275_49}
HandlerNewOrigs == {PlusZero, FromInt(9000), F5101_38}
HandlerOldDests == {PlusZero, FromInt(9000), F5101_38}
HandlerNewDests == {PlusZero, F15275_49}

InitHandler ==
    /\ cache = {1}
    /\ loadCalls = 1
    /\ handles = {1}
    /\ transaction_type \in HandlerLabels
    /\ amount \in HandlerAmounts
    /\ oldbalanceOrg \in HandlerOldOrigs
    /\ newbalanceOrig \in HandlerNewOrigs
    /\ oldbalanceDest \in HandlerOldDests
    /\ newbalanceDest \in HandlerNewDests
    /\ pc = "build"
    /\ clicked = TRUE
    /\ model = {1}
    /\ input_data = {}
    /\ input_data_enhanced = {}
    /\ prediction = {}
    /\ probability = {}
    /\ error = "none"
    /\ rendered = {"form", "button"}
    /\ shown = {}
    /\ predictCall = {}
    /\ probaCall = {}
    /\ firstDerive = {}

NextHandler ==
    \/ Build
    \/ Derive
    \/ Predict
    \/ Proba
    \/ Show
    \/ Footer

SpecHandler == InitHandler /\ [][NextHandler]_vars
(***************************************************************************)
(* Properties                                                              *)
(***************************************************************************)

One == FromInt(1)

\* x > y decided on the exact difference x - y.
ExactlyGreater(x, y) ==
    LET d == ExactAdd(x, Neg(y)) IN d.mag # {} /\ ~d.neg

NonNegative(x) == ~x.neg

\* C1: a request whose type label is none of the four the handler recognizes
\* ends in the lookup's error (Python's KeyError) at the first statement of the
\* handler: no frame is built, no feature is derived, neither model.predict nor
\* model.predict_proba is called, and nothing is displayed.
C1_UnknownTypeRejected ==
    transaction_type \notin TypeOptions =>
        /\ pc \in {"build", "crashed"}
        /\ pc = "crashed" => error = "KeyError"
        /\ input_data = {}
        /\ input_data_enhanced = {}
        /\ firstDerive = {}
        /\ predictCall = {}
        /\ probaCall = {}
        /\ prediction = {}
        /\ probability = {}
        /\ shown = {}

C1_Witness ==
    /\ transaction_type = "WITHDRAWAL"
    /\ pc = "crashed"
    /\ error = "KeyError"
    /\ predictCall = {}

C3_LoadFailureFatal ==
    /\ error = "LoadError" =>
          /\ pc = "crashed"
          /\ model = {}
          /\ rendered = {"exception"}
    /\ model = {} =>
          /\ pc \in {"load", "crashed"}
          /\ rendered \cap {"form", "button", "result"} = {}
          /\ input_data = {} /\ input_data_enhanced = {}
          /\ predictCall = {} /\ probaCall = {}
          /\ prediction = {} /\ probability = {}
          /\ shown = {}

C3_Witness ==
    /\ error = "LoadError"
    /\ pc = "crashed"
    /\ loadCalls = 1

\* C4: large_transaction is 1 exactly when amount > 200000 and 0 otherwise;
\* 200000 gives 0 and 200001 gives 1.
C4_LargeTransaction ==
    \A e \in input_data_enhanced :
        /\ e.large_transaction \in {0, 1}
        /\ e.large_transaction = 1 <=> ExactlyGreater(e.amount, FromInt(200000))
        /\ e.amount = FromInt(200000) => e.large_transaction = 0
        /\ e.amount = FromInt(200001) => e.large_transaction = 1

C4_Witness ==
    /\ amount = FromInt(200000)
    /\ \E e \in input_data_enhanced : e.amount = amount /\ e.large_transaction = 0

\* C5: is_zero_balance_orig is 1 exactly when newbalanceOrig (the origin's
\* balance after the transaction) is 0, is_zero_balance_dest is 1 exactly when
\* oldbalanceDest (the destination's balance before it) is 0, and each is 0
\* otherwise, whatever the other fields are.
C5_ZeroBalanceFlags ==
    \A e \in input_data_enhanced :
        /\ e.is_zero_balance_orig = (IF newbalanceOrig = PlusZero THEN 1 ELSE 0)
        /\ e.is_zero_balance_dest = (IF oldbalanceDest = PlusZero THEN 1 ELSE 0)

C5_Witness ==
    /\ newbalanceOrig = PlusZero
    /\ oldbalanceOrg # PlusZero
    /\ oldbalanceDest # PlusZero
    /\ newbalanceDest = PlusZero
    /\ \E e \in input_data_enhanced :
          e.is_zero_balance_orig = 1 /\ e.is_zero_balance_dest = 0

\* C6 as stated: for every record, balance_diff_orig + newbalanceOrig equals
\* oldbalanceOrg and balance_diff_dest + oldbalanceDest equals newbalanceDest.
C6_DiffPlusNewIsOld ==
    \A e \in input_data_enhanced :
        /\ FAdd(e.balance_diff_orig, e.newbalanceOrig) = e.oldbalanceOrg
        /\ FAdd(e.balance_diff_dest, e.oldbalanceDest) = e.newbalanceDest

\* C6, amended: balance_diff_orig is old - new rounded to float64, so
\* balance_diff_orig + newbalanceOrig equals oldbalanceOrg whenever that
\* difference needs no rounding (whole-number balances, for one), and likewise
\* for the destination; error_balance_orig is (old - new) - amount and
\* error_balance_dest is (new - old) - amount in the same arithmetic; amount
\* 1000 with origin 10000 -> 9000 gives balance_diff_orig 1000 and
\* error_balance_orig 0.
C6_DiffPlusNewIsOldWhenExact ==
    \A e \in input_data_enhanced :
        LET exactOrig == ExactAdd(e.oldbalanceOrg, Neg(e.newbalanceOrig))
            exactDest == ExactAdd(e.newbalanceDest, Neg(e.oldbalanceDest))
        IN  /\ e.balance_diff_orig = RoundF(exactOrig)
            /\ e.balance_diff_dest = RoundF(exactDest)
            /\ Representable(exactOrig.mag) =>
                  FAdd(e.balance_diff_orig, e.newbalanceOrig) = e.oldbalanceOrg
            /\ Representable(exactDest.mag) =>
                  FAdd(e.balance_diff_dest, e.oldbalanceDest) = e.newbalanceDest
            /\ e.error_balance_orig =
                  FSub(FSub(e.oldbalanceOrg, e.newbalanceOrig), e.amount)
            /\ e.error_balance_dest =
                  FSub(FSub(e.newbalanceDest, e.oldbalanceDest), e.amount)
            /\ (/\ e.amount = FromInt(1000)
                /\ e.oldbalanceOrg = FromInt(10000)
                /\ e.newbalanceOrig = FromInt(9000)) =>
                  /\ e.balance_diff_orig = FromInt(1000)
                  /\ e.error_balance_orig = PlusZero

C6_Witness ==
    /\ amount = FromInt(1000)
    /\ oldbalanceOrg = FromInt(10000)
    /\ newbalanceOrig = FromInt(9000)
    /\ \E e \in input_data_enhanced :
          /\ e.balance_diff_orig = FromInt(1000)
          /\ FAdd(e.balance_diff_orig, e.newbalanceOrig) = e.oldbalanceOrg

\* C7: dic_type is a bijection from the selectbox's four labels onto the four
\* canonical codes, and the type of every frame built, derived or passed to
\* the classifier is the code of the selected label, one of the four.
C7_TypeBijection ==
    /\ DOMAIN dic_type = TypeOptions
    /\ \A l1, l2 \in TypeOptions : dic_type[l1] = dic_type[l2] => l1 = l2
    /\ {dic_type[l] : l \in TypeOptions} = CanonicalCodes
    /\ \A code \in CanonicalCodes :
          Cardinality({l \in TypeOptions : dic_type[l] = code}) = 1
    /\ transaction_type \in TypeOptions
    /\ \A df \in input_data \cup input_data_enhanced :
          df.type \in CanonicalCodes /\ df.type = dic_type[transaction_type]
    /\ \A c \in predictCall \cup probaCall :
          c.arg.type \in CanonicalCodes /\ c.arg.type = dic_type[transaction_type]

C7_Witness ==
    /\ transaction_type = "RETRAIT"
    /\ \E c \in probaCall : c.arg.type = "CASH_OUT"

C9_DeriveTotal ==
    (/\ pc \notin {"build", "derive", "crashed"}
     /\ \A v \in {amount, oldbalanceOrg, newbalanceOrig, oldbalanceDest, newbalanceDest} :
           NonNegative(v)) =>
        /\ error = "none"
        /\ input_data_enhanced # {}
        /\ \A e \in input_data_enhanced :
              /\ DerivedColumns \subseteq DOMAIN e
              /\ Cardinality(DerivedColumns) = 12
              /\ \A r \in {e.amount_to_oldbalance_orig, e.amount_to_oldbalance_dest} :
                    /\ r.den.mag # {}
                    /\ ~FGt(One, r.den)
              /\ e.amount_to_oldbalance_orig.den = FAdd(oldbalanceOrg, One)
              /\ e.amount_to_oldbalance_dest.den = FAdd(oldbalanceDest, One)
              /\ e.amount_to_oldbalance_orig.num = amount
              /\ e.amount_to_oldbalance_dest.num = amount
              /\ e.log_amount.arg = amount
              /\ e.log_oldbalance_orig.arg = oldbalanceOrg
              /\ e.log_oldbalance_dest.arg = oldbalanceDest
              /\ \A l \in {e.log_amount, e.log_oldbalance_orig, e.log_oldbalance_dest} :
                    ~FGt(One, FAdd(One, l.arg))

C9_Witness ==
    /\ amount = PlusZero
    /\ oldbalanceOrg = PlusZero
    /\ oldbalanceDest = PlusZero
    /\ pc = "predict"
    /\ \E e \in input_data_enhanced : e.amount_to_oldbalance_orig.den = One

\* C10: after the derivation the caller's frame still has exactly its six
\* columns, holding the values read from the form; the enriched frame has those
\* six with the same cells and exactly the twelve derived columns more; and
\* model.predict and model.predict_proba are both given that enriched frame.
C10_ArgumentUnchanged ==
    /\ \A df \in input_data :
          df = [type           |-> dic_type[transaction_type],
                amount         |-> amount,
                oldbalanceOrg  |-> oldbalanceOrg,
                newbalanceOrig |-> newbalanceOrig,
                oldbalanceDest |-> oldbalanceDest,
                newbalanceDest |-> newbalanceDest]
    /\ \A e \in input_data_enhanced :
          /\ input_data # {}
          /\ DOMAIN The(input_data) = RawColumns
          /\ DOMAIN e = RawColumns \cup DerivedColumns
          /\ RawColumns \cap DerivedColumns = {}
          /\ Cardinality(DOMAIN e \ RawColumns) = 12
          /\ \A c \in RawColumns : e[c] = The(input_data)[c]
    /\ \A c \in predictCall \cup probaCall : {c.arg} = input_data_enhanced

C10_Witness ==
    /\ pc = "show"
    /\ input_data # {}
    /\ \E c \in predictCall, d \in probaCall : c.arg = d.arg /\ {c.arg} = input_data_enhanced
====
